---- MODULE Spec2Model ----
(***************************************************************************)
(* A model of choreopy's CRD generator (src/src/crd.py): generate_crds     *)
(* walks the schema files of a directory; generate_crd derives the naming  *)
(* tuple from the file name, loads the JSON schema, inlines its $ref       *)
(* markers (expand_refs), strips generator metadata                        *)
(* (schema_post_processing) and writes the CRD manifest as YAML.           *)
(*                                                                         *)
(* Python objects live in a heap: expand_refs mutates dicts and lists in   *)
(* place and shares them (dict.copy() is shallow, a required list is       *)
(* handed down by reference), so object identity is part of the state.     *)
(*                                                                         *)
(* A string is a sequence of tokens (its pieces and its separators), so    *)
(* that split() and concatenation are computed, not assumed.  A dict key   *)
(* is a single token.                                                      *)
(***************************************************************************)
EXTENDS Integers, Sequences, FiniteSets, TLC

VARIABLES
    indir,        \* the schema files under input_dir, in the directory's listing order
    outfiles,     \* output_dir: file name -> content written
    pc,           \* position in generate_crds / generate_crd / get_schema
    todo,         \* json_files: the paths still to process (generate_crds' loop)
    cur,          \* schema_file_path: the path of the file generate_crd is working on
    naming,       \* group, resource, kind, version of the current file
    loaded,       \* the path last handed to load_json_schema
    heap,         \* Python objects: address -> dict or list
    schema,       \* get_schema's `schema`
    definitions,  \* get_schema's `definitions`
    stack,        \* activation records of expand_refs
    calls,        \* how many times expand_refs was called on the current schema
    run,          \* which run of the batch this is
    defs0,        \* the definitions table as it was when expand_refs was called
    tree1,        \* the schema tree as the first expand_refs left it
    pre,          \* the schema tree handed to schema_post_processing
    out0,         \* output_dir as it was when generate_crd started on cur
    out1          \* output_dir as the first run of the batch left it

vars == <<indir, outfiles, pc, todo, cur, naming, loaded, heap, schema, definitions,
          stack, calls, run, defs0, tree1, pre, out0, out1>>

(***************************************************************************)
(* Bounds of the model.                                                    *)
(***************************************************************************)
MaxProps == 2      \* properties of the top-level schema object
MaxNameLen == 4    \* tokens in a schema file's stem

(***************************************************************************)
(* JSON documents (file contents, and snapshots of the heap).              *)
(***************************************************************************)
JStr(toks) == [t |-> "s", s |-> toks, keys |-> <<>>, vals |-> <<>>]
JBool(b) == [t |-> "b", s |-> <<b>>, keys |-> <<>>, vals |-> <<>>]
JNull == [t |-> "n", s |-> <<>>, keys |-> <<>>, vals |-> <<>>]
JDict(ks, vs) == [t |-> "d", s |-> <<>>, keys |-> ks, vals |-> vs]
JList(vs) == [t |-> "l", s |-> <<>>, keys |-> <<>>, vals |-> vs]

(***************************************************************************)
(* Heap values: a scalar, or a pointer to a heap object.                   *)
(***************************************************************************)
Ptr(a) == [t |-> "p", s |-> <<>>, p |-> a]
Scalar(j) == [t |-> j.t, s |-> j.s, p |-> 0]
None == [t |-> "n", s |-> <<>>, p |-> 0]
EmptyDict == [k |-> "d", keys |-> <<>>, vals |-> <<>>]
EmptyList == [k |-> "l", keys |-> <<>>, vals |-> <<>>]

IsDict(h, v) == v.t = "p" /\ h[v.p].k = "d"
IsList(h, v) == v.t = "p" /\ h[v.p].k = "l"

\* Python truthiness of a value: None, "", [] and {} are false
Truthy(h, v) ==
    IF v.t = "p" THEN h[v.p].vals # <<>>
    ELSE IF v.t = "n" THEN FALSE
    ELSE IF v.t = "b" THEN v.s = <<"true">>
    ELSE v.s # <<>>

Range(q) == {q[i] : i \in 1..Len(q)}
Last(q) == q[Len(q)]
RemoveAt(q, i) == SubSeq(q, 1, i - 1) \o SubSeq(q, i + 1, Len(q))

(***************************************************************************)
(* dict operations; a dict keeps its keys in insertion order.              *)
(***************************************************************************)
Index(ks, key) ==
    IF \E i \in 1..Len(ks) : ks[i] = key
    THEN CHOOSE i \in 1..Len(ks) : ks[i] = key
    ELSE 0
Has(o, key) == Index(o.keys, key) # 0
Get(o, key) == o.vals[Index(o.keys, key)]
GetOr(o, key, dflt) == IF Has(o, key) THEN Get(o, key) ELSE dflt
Pop(o, key) ==
    IF Has(o, key)
    THEN [o EXCEPT !.keys = RemoveAt(@, Index(o.keys, key)),
                   !.vals = RemoveAt(@, Index(o.keys, key))]
    ELSE o
Put(o, key, v) ==
    IF Has(o, key)
    THEN [o EXCEPT !.vals[Index(o.keys, key)] = v]
    ELSE [o EXCEPT !.keys = Append(@, key), !.vals = Append(@, v)]

RECURSIVE Update(_, _)
Update(o, d) ==
    IF d.keys = <<>> THEN o
    ELSE Update(Put(o, Head(d.keys), Head(d.vals)),
                [d EXCEPT !.keys = Tail(@), !.vals = Tail(@)])

(***************************************************************************)
(* json.load: a document becomes fresh heap objects.                       *)
(***************************************************************************)
\* The objects of j take the addresses base+1 .. base+Size(j), children before their
\* parent, so that the object of j itself is the last one.
RECURSIVE Size(_), Objects(_, _)
Size(j) ==
    IF j.t \in {"d", "l"}
    THEN LET F[i \in 0..Len(j.vals)] == IF i = 0 THEN 1 ELSE F[i - 1] + Size(j.vals[i])
         IN  F[Len(j.vals)]
    ELSE 0
Objects(j, base) ==
    IF j.t \in {"d", "l"}
    THEN LET n == Len(j.vals)
             Off[i \in 0..n] == IF i = 0 THEN base ELSE Off[i - 1] + Size(j.vals[i])
             Sub[i \in 0..n] ==
                 IF i = 0 THEN <<>> ELSE Sub[i - 1] \o Objects(j.vals[i], Off[i - 1])
             val(i) == IF j.vals[i].t \in {"d", "l"} THEN Ptr(Off[i]) ELSE Scalar(j.vals[i])
         IN  Append(Sub[n], [k |-> j.t, keys |-> j.keys, vals |-> [i \in 1..n |-> val(i)]])
    ELSE <<>>
\* json.load of a document whose top level is an object
Load(j) == [h |-> Objects(j, 0), v |-> Ptr(Size(j))]

\* the document a heap value stands for (what a serialiser that never emits
\* aliases sees: shared objects are written out at every place)
RECURSIVE Deep(_, _)
Deep(h, v) ==
    IF v.t = "p"
    THEN [t |-> h[v.p].k, s |-> <<>>, keys |-> h[v.p].keys,
          vals |-> [i \in 1..Len(h[v.p].vals) |-> Deep(h, h[v.p].vals[i])]]
    ELSE [t |-> v.t, s |-> v.s, keys |-> <<>>, vals |-> <<>>]

(***************************************************************************)
(* str.split(sep) and the path helpers.                                    *)
(***************************************************************************)
RECURSIVE Split(_, _)
Split(toks, sep) ==
    IF \E i \in 1..Len(toks) : toks[i] = sep
    THEN LET i == CHOOSE i \in 1..Len(toks) :
                      toks[i] = sep /\ \A j \in 1..(i - 1) : toks[j] # sep
         IN  <<SubSeq(toks, 1, i - 1)>> \o Split(SubSeq(toks, i + 1, Len(toks)), sep)
    ELSE <<toks>>

\* a dict key is one token; a string of several tokens is no key of any dict
KeyOf(toks) == IF Len(toks) = 1 THEN toks[1] ELSE ""

\* Path(p).stem: the file name without its last suffix (rfind('.'))
Stem(name) ==
    LET dots == {i \in 1..Len(name) : name[i] = "."}
        i == IF dots = {} THEN 0 ELSE CHOOSE i \in dots : \A j \in dots : j <= i
    IN  IF 1 < i /\ i < Len(name) THEN SubSeq(name, 1, i - 1) ELSE name

\* extract_version_from_path: the part before the first part equal to the file name
extract_version_from_path(path) ==
    LET file_name_index ==
            CHOOSE i \in 1..Len(path) :
                path[i] = Last(path) /\ \A j \in 1..(i - 1) : path[j] # Last(path)
    IN  IF file_name_index > 1 THEN JStr(path[file_name_index - 1]) ELSE JNull

\* str.lower() on the tokens of a name
LowerTok(c) == IF c = "K" THEN "k" ELSE c
Lower(toks) == [i \in 1..Len(toks) |-> LowerTok(toks[i])]

(***************************************************************************)
(* expand_refs(schema, definitions, parent_required), one activation       *)
(* record per call.  A record is at "enter" (before line 74) or at "loop"  *)
(* (in the loop of lines 95-106, `work` being what is left of              *)
(* list(schema.items()) and idx the place in the list being walked).       *)
(***************************************************************************)
Frame(a, pr) == [schema |-> a, pr |-> pr, at |-> "enter", work |-> <<>>, idx |-> 1]

\* definitions.get(ref_name, {}).copy(): a shallow copy, the values are shared
Resolve(h, defs, ref_name) ==
    IF Has(h[defs.p], KeyOf(ref_name))
    THEN h[Get(h[defs.p], KeyOf(ref_name)).p]
    ELSE EmptyDict

\* definition.pop('required', []), as the names it holds
LocalRequired(h, definition) ==
    IF Has(definition, "required") THEN h[Get(definition, "required").p].vals ELSE <<>>

\* ExpandRef, had a marker without a definition been left alone
ExpandRefKeepUnknown(h, a, pr, defs) ==
    IF Has(h[a], "$ref") /\ Has(h[defs.p], KeyOf(Last(Split(Get(h[a], "$ref").s, "/"))))
    THEN LET definition == Resolve(h, defs, Last(Split(Get(h[a], "$ref").s, "/")))
             local_required == LocalRequired(h, definition)
             h1 == [h EXCEPT ![a] = Update(Pop(h[a], "$ref"), Pop(definition, "required"))]
         IN  IF local_required # <<>> /\ pr # 0
             THEN [h1 EXCEPT ![pr].vals = @ \o local_required]
             ELSE h1
    ELSE h

\* lines 74-88: inline the reference held by the dict at a
ExpandRef(h, a, pr, defs) ==
    IF Has(h[a], "$ref")
    THEN LET ref_path == Get(h[a], "$ref").s
             ref_name == Last(Split(ref_path, "/"))
             definition == Resolve(h, defs, ref_name)
             local_required == LocalRequired(h, definition)
             h1 == [h EXCEPT ![a] = Update(Pop(h[a], "$ref"), Pop(definition, "required"))]
         IN  IF local_required # <<>> /\ pr # 0
             THEN [h1 EXCEPT ![pr].vals = @ \o local_required]
             ELSE h1
    ELSE h

\* list(set(q)): the distinct elements of q, in an order the hash table decides
ListOfSet(q) ==
    {r \in [1..Cardinality(Range(q)) -> Range(q)] :
        \A i, j \in 1..Cardinality(Range(q)) : r[i] = r[j] => i = j}

\* list(schema.items()), of which the loop only acts on dict and list values
Items(h, a) ==
    LET o == h[a]
        F[i \in 0..Len(o.keys)] ==
            IF i = 0 THEN <<>>
            ELSE IF IsDict(h, o.vals[i]) \/ IsList(h, o.vals[i])
                 THEN Append(F[i - 1], [key |-> o.keys[i], v |-> o.vals[i]])
                 ELSE F[i - 1]
    IN  F[Len(o.keys)]

\* line 98: does the call on a dict child get schema.get('required', []) ?
NewScope(key, pr) == key = "properties" \/ pr # 0

ExpandRefsEnter ==
    /\ pc = "expand"
    /\ stack # <<>>
    /\ Head(stack).at = "enter"
    /\ LET f == Head(stack)
           h1 == ExpandRef(heap, f.schema, f.pr, definitions)
       IN  \E order \in (IF f.pr = 0 THEN {<<>>} ELSE ListOfSet(h1[f.pr].vals)) :
              LET h2 == IF f.pr = 0 THEN h1 ELSE [h1 EXCEPT ![f.pr].vals = order]
              IN  /\ heap' = h2
                  /\ stack' = <<[f EXCEPT !.at = "loop", !.work = Items(h2, f.schema)]>>
                              \o Tail(stack)
    /\ UNCHANGED <<indir, outfiles, pc, todo, cur, naming, loaded, schema, definitions,
                   calls, run, defs0, tree1, pre, out0, out1>>

\* lines 98-101: the list handed to the call on the dict under `key`, as its
\* address; Len(h) + 1 is the address of a list made for the call
RequiredFor(h, o, key, pr) ==
    IF NewScope(key, pr)
    THEN IF Has(o, "required") THEN Get(o, "required").p ELSE Len(h) + 1
    ELSE pr

\* lines 96-101: the next item is a dict: recurse into it
ExpandRefsDict ==
    /\ pc = "expand"
    /\ stack # <<>>
    /\ Head(stack).at = "loop"
    /\ Head(stack).work # <<>>
    /\ LET f == Head(stack)
           item == Head(f.work)
           required == RequiredFor(heap, heap[f.schema], item.key, f.pr)
       IN  /\ IsDict(heap, item.v)
           /\ heap' = IF required = Len(heap) + 1 THEN Append(heap, EmptyList) ELSE heap
           /\ stack' = <<Frame(item.v.p, required), [f EXCEPT !.work = Tail(@)]>>
                       \o Tail(stack)
    /\ UNCHANGED <<indir, outfiles, pc, todo, cur, naming, loaded, schema, definitions,
                   calls, run, defs0, tree1, pre, out0, out1>>

\* lines 102-106: the next item is a list: recurse into its next dict element,
\* or leave the list when none is left
ExpandRefsList ==
    /\ pc = "expand"
    /\ stack # <<>>
    /\ Head(stack).at = "loop"
    /\ Head(stack).work # <<>>
    /\ LET f == Head(stack)
           item == Head(f.work)
           elems == heap[item.v.p].vals
           dicts == {i \in f.idx..Len(elems) : IsDict(heap, elems[i])}
       IN  /\ IsList(heap, item.v)
           /\ IF dicts # {}
              THEN LET i == CHOOSE i \in dicts : \A j \in dicts : i <= j
                   IN  stack' = <<Frame(elems[i].p, f.pr), [f EXCEPT !.idx = i + 1]>>
                                \o Tail(stack)
              ELSE stack' = <<[f EXCEPT !.work = Tail(@), !.idx = 1]>> \o Tail(stack)
    /\ UNCHANGED <<indir, outfiles, pc, todo, cur, naming, loaded, heap, schema, definitions,
                   calls, run, defs0, tree1, pre, out0, out1>>

\* lines 108-110: hand the accumulated names to a node that has properties
AttachRequired(h, a, pr) ==
    IF Has(h[a], "properties") /\ ~Has(h[a], "required") /\ pr # 0 /\ Truthy(h, Ptr(pr))
    THEN [h EXCEPT ![a] = Put(h[a], "required", Ptr(pr))]
    ELSE h

\* lines 111-113 (and 134-135): drop an empty required
DropEmptyRequired(h, a) ==
    IF Has(h[a], "required") /\ ~Truthy(h, Get(h[a], "required"))
    THEN [h EXCEPT ![a] = Pop(h[a], "required")]
    ELSE h

\* lines 108-113 and the return
ExpandRefsReturn ==
    /\ pc = "expand"
    /\ stack # <<>>
    /\ Head(stack).at = "loop"
    /\ Head(stack).work = <<>>
    /\ LET f == Head(stack)
       IN  heap' = DropEmptyRequired(AttachRequired(heap, f.schema, f.pr), f.schema)
    /\ stack' = Tail(stack)
    /\ pc' = IF Tail(stack) # <<>> THEN "expand"
             ELSE IF calls = 2 THEN "expanded_twice" ELSE "expanded"
    /\ UNCHANGED <<indir, outfiles, todo, cur, naming, loaded, schema, definitions,
                   calls, run, defs0, tree1, pre, out0, out1>>

(***************************************************************************)
(* schema_post_processing(schema): in place, over properties and items.    *)
(***************************************************************************)
\* StripNode, had required been popped whether empty or not
StripNodeAnyRequired(h, o) ==
    LET o1 == Pop(o, "title")
        o2 == IF GetOr(o1, "default", None).t = "n" THEN Pop(o1, "default") ELSE o1
    IN  Pop(o2, "required")

\* lines 126-135: the keys removed from one node
StripNode(h, o) ==
    LET o1 == Pop(o, "title")
        o2 == IF GetOr(o1, "default", None).t = "n" THEN Pop(o1, "default") ELSE o1
    IN  IF Has(o2, "required") /\ ~Truthy(h, Get(o2, "required"))
        THEN Pop(o2, "required")
        ELSE o2

RECURSIVE schema_post_processing(_, _), PostProcessEach(_, _)
PostProcessEach(h, vs) ==
    IF vs = <<>> THEN h
    ELSE PostProcessEach(schema_post_processing(h, Head(vs)), Tail(vs))
schema_post_processing(h, v) ==
    IF IsDict(h, v)
    THEN LET h1 == IF Has(h[v.p], "properties")
                   THEN PostProcessEach(h, h[Get(h[v.p], "properties").p].vals)
                   ELSE h
             h2 == IF Has(h1[v.p], "items")
                   THEN schema_post_processing(h1, Get(h1[v.p], "items"))
                   ELSE h1
         IN  [h2 EXCEPT ![v.p] = StripNode(h2, @)]
    ELSE IF IsList(h, v)
         THEN PostProcessEach(h, h[v.p].vals)
         ELSE h

(***************************************************************************)
(* generate_crd: the manifest and its YAML text.                           *)
(***************************************************************************)
\* OpenAPIV3Schema, had the schema's required list been copied too
OpenAPIV3SchemaWithRequired(h, sch) ==
    JDict(<<"description", "type", "properties">>
              \o (IF Has(h[sch.p], "required") THEN <<"required">> ELSE <<>>),
          << IF Has(h[sch.p], "description")
             THEN Deep(h, Get(h[sch.p], "description")) ELSE JNull,
             JStr(<<"object">>),
             IF Has(h[sch.p], "properties")
             THEN Deep(h, Get(h[sch.p], "properties")) ELSE JDict(<<>>, <<>>) >>
              \o (IF Has(h[sch.p], "required")
                  THEN <<Deep(h, Get(h[sch.p], "required"))>> ELSE <<>>))

\* lines 210-216: what of the schema goes into the manifest
OpenAPIV3Schema(h, sch) ==
    JDict(<<"description", "type", "properties">>,
          << IF Has(h[sch.p], "description")
             THEN Deep(h, Get(h[sch.p], "description")) ELSE JNull,
             JStr(<<"object">>),
             IF Has(h[sch.p], "properties")
             THEN Deep(h, Get(h[sch.p], "properties")) ELSE JDict(<<>>, <<>>) >>)

\* lines 185-220
Crd(h, sch, n) ==
    JDict(<<"apiVersion", "kind", "metadata", "spec">>,
      << JStr(<<"apiextensions.k8s.io", "/", "v1">>),
         JStr(<<"CustomResourceDefinition">>),
         JDict(<<"name">>, <<JStr(n.resource \o <<".">> \o n.group)>>),
         JDict(<<"group", "names", "scope", "versions">>,
           << JStr(n.group),
              JDict(<<"kind", "listKind", "plural", "singular">>,
                    <<JStr(n.kind), JStr(n.kind \o <<"List">>),
                      JStr(n.resource), JStr(Lower(n.kind))>>),
              JStr(<<"Namespaced">>),
              JList(<< JDict(<<"name", "served", "storage", "subresources", "schema">>,
                        << n.version, JBool("true"), JBool("true"),
                           JDict(<<"status">>, <<JDict(<<>>, <<>>)>>),
                           JDict(<<"openAPIV3Schema">>, <<OpenAPIV3Schema(h, sch)>>) >>) >>) >>) >>)

\* the keys the documents of the model use, in the order of Python's str comparison
KeyOrder ==
    << "$ref", "a", "allOf", "anyOf", "apiVersion", "b", "c", "default", "description",
       "group", "items", "kind", "listKind", "metadata", "name", "names",
       "openAPIV3Schema", "p", "plural", "properties", "q", "r", "required", "schema",
       "scope", "served", "singular", "spec", "status", "storage", "subresources",
       "title", "type", "versions", "x", "y" >>
KeyLess(k1, k2) == Index(KeyOrder, k1) < Index(KeyOrder, k2)

\* yaml.dump(data, Dumper=NoAliasDumper, sort_keys=True): mappings are written with
\* their keys sorted, sequences in their own order
RECURSIVE Sorted(_), dump_data_without_aliases(_)
Sorted(ks) ==
    IF ks = <<>> THEN <<>>
    ELSE LET m == CHOOSE i \in 1..Len(ks) : \A j \in 1..Len(ks) : ~KeyLess(ks[j], ks[i])
         IN  <<ks[m]>> \o Sorted(RemoveAt(ks, m))
dump_data_without_aliases(j) ==
    IF j.t = "d"
    THEN LET ks == Sorted(j.keys)
         IN  JDict(ks, [i \in 1..Len(ks) |->
                           dump_data_without_aliases(j.vals[Index(j.keys, ks[i])])])
    ELSE IF j.t = "l"
         THEN JList([i \in 1..Len(j.vals) |-> dump_data_without_aliases(j.vals[i])])
         ELSE j

\* line 222: the output file's name
YamlFilename(n) == n.group \o <<"_">> \o n.resource \o <<".", "yaml">>

\* yaml.safe_load of a written file, then a lookup by key
At(j, key) == j.vals[Index(j.keys, key)]
Written(fn) == (CHOOSE f \in outfiles : f.name = fn).content
EmittedSchema(fn) ==
    At(At(At(At(Written(fn), "spec"), "versions").vals[1], "schema"), "openAPIV3Schema")

(***************************************************************************)
(* generate_crds, generate_crd and get_schema, step by step.               *)
(***************************************************************************)
NoNaming == [group |-> <<>>, resource |-> <<>>, kind |-> <<>>, version |-> JNull]

\* lines 227-232: makedirs, glob
GenerateCrds ==
    /\ pc = "start"
    /\ todo' = [i \in 1..Len(indir) |-> indir[i].path]
    /\ pc' = "next"
    /\ UNCHANGED <<indir, outfiles, cur, naming, loaded, heap, schema, definitions, stack,
                   calls, run, defs0, tree1, pre, out0, out1>>

\* line 233: the loop takes the next schema file
NextFile ==
    /\ pc = "next"
    /\ todo # <<>>
    /\ cur' = Head(todo)
    /\ todo' = Tail(todo)
    /\ out0' = outfiles
    /\ loaded' = <<>>
    /\ pc' = "crd"
    /\ UNCHANGED <<indir, outfiles, naming, heap, schema, definitions, stack,
                   calls, run, defs0, tree1, pre, out1>>

\* the loop ends
BatchDone ==
    /\ pc = "next"
    /\ todo = <<>>
    /\ pc' = "done"
    /\ UNCHANGED <<indir, outfiles, todo, cur, naming, loaded, heap, schema, definitions, stack,
                   calls, run, defs0, tree1, pre, out0, out1>>

\* SplitName, had line 179 read base_filename.split('_', 2)
SplitNameAtMostTwice(base_filename) ==
    LET parts == Split(base_filename, "_")
        Rest[i \in 3..Len(parts)] ==
            IF i = 3 THEN parts[3] ELSE Rest[i - 1] \o <<"_">> \o parts[i]
    IN  IF Len(parts) <= 3 THEN parts ELSE <<parts[1], parts[2], Rest[Len(parts)]>>

\* line 179: base_filename.split('_')
SplitName(base_filename) == Split(base_filename, "_")

\* lines 178-181: the unpacking raises ValueError unless there are three parts
GenerateCrdName ==
    /\ pc = "crd"
    /\ LET parts == SplitName(Stem(Last(cur)))
       IN  IF Len(parts) = 3
           THEN /\ naming' = [group |-> parts[1], resource |-> parts[2], kind |-> parts[3],
                              version |-> extract_version_from_path(cur)]
                /\ pc' = "load"
           ELSE /\ naming' = naming
                /\ pc' = "error"
    /\ UNCHANGED <<indir, outfiles, todo, cur, loaded, heap, schema, definitions, stack,
                   calls, run, defs0, tree1, pre, out0, out1>>

\* lines 142-145: the content of the file at a path
load_json_schema(path) ==
    indir[CHOOSE i \in 1..Len(indir) : indir[i].path = path].content
\* get_schema, lines 148-150: load, pop $defs, call expand_refs(schema, definitions)
GetSchemaLoad ==
    /\ pc = "load"
    /\ LET r == Load(load_json_schema(cur))
           top == r.h[r.v.p]
           h1 == [r.h EXCEPT ![r.v.p] = Pop(top, "$defs")]
           h2 == IF Has(top, "$defs") THEN h1 ELSE Append(h1, EmptyDict)
           d == IF Has(top, "$defs") THEN Get(top, "$defs") ELSE Ptr(Len(h1) + 1)
       IN  /\ heap' = h2
           /\ schema' = r.v
           /\ definitions' = d
           /\ defs0' = Deep(h2, d)
           /\ stack' = <<Frame(r.v.p, 0)>>
    /\ loaded' = cur
    /\ calls' = 1
    /\ pc' = "expand"
    /\ UNCHANGED <<indir, outfiles, todo, cur, naming, run, tree1, pre, out0, out1>>

\* get_schema, line 151
PostProcess ==
    /\ pc = "expanded"
    /\ pre' = Deep(heap, schema)
    /\ heap' = schema_post_processing(heap, schema)
    /\ pc' = "emit"
    /\ UNCHANGED <<indir, outfiles, todo, cur, naming, loaded, schema, definitions, stack,
                   calls, run, defs0, tree1, out0, out1>>

\* lines 185-225: build the manifest, dump it, write the file
WriteCrd ==
    /\ pc = "emit"
    /\ outfiles' = {f \in outfiles : f.name # YamlFilename(naming)}
                   \cup {[name |-> YamlFilename(naming),
                          content |-> dump_data_without_aliases(Crd(heap, schema, naming))]}
    /\ pc' = "next"
    /\ UNCHANGED <<indir, todo, cur, naming, loaded, heap, schema, definitions, stack,
                   calls, run, defs0, tree1, pre, out0, out1>>

\* expand_refs is called once more on the tree it left, with the same table
ExpandAgain ==
    /\ pc = "expanded"
    /\ calls = 1
    /\ run = 1
    /\ tree1' = Deep(heap, schema)
    /\ calls' = 2
    /\ stack' = <<Frame(schema.p, 0)>>
    /\ pc' = "expand"
    /\ UNCHANGED <<indir, outfiles, todo, cur, naming, loaded, heap, schema, definitions,
                   run, defs0, pre, out0, out1>>

\* the batch is run a second time (a new process) over the same directories
RunAgain ==
    /\ pc = "done"
    /\ run = 1
    /\ out1' = outfiles
    /\ run' = 2
    /\ pc' = "start"
    /\ UNCHANGED <<indir, outfiles, todo, cur, naming, loaded, heap, schema, definitions, stack,
                   calls, defs0, tree1, pre, out0>>

(***************************************************************************)
(* The inputs: schema documents as pydantic writes them, and file names.   *)
(***************************************************************************)
Names(req) == JList([i \in 1..Len(req) |-> JStr(<<req[i]>>)])
Leaf == JDict(<<"title", "type">>, <<JStr(<<"T">>), JStr(<<"string">>)>>)
LeafDefault == JDict(<<"default", "title", "type">>, <<JNull, JStr(<<"T">>), JStr(<<"string">>)>>)
Ref(n) == JDict(<<"$ref">>, <<JStr(<<"#", "/", "$defs", "/", n>>)>>)
AllOf(nodes) == JDict(<<"allOf">>, <<JList(nodes)>>)
ArrayOf(node) == JDict(<<"items", "type">>, <<node, JStr(<<"array">>)>>)
\* an object node; req = <<>> stands for "no required key"
Obj(ks, vs, req) ==
    JDict(<<"properties">> \o (IF req = <<>> THEN <<>> ELSE <<"required">>)
              \o <<"title", "type">>,
          <<JDict(ks, vs)>> \o (IF req = <<>> THEN <<>> ELSE <<Names(req)>>)
              \o <<JStr(<<"O">>), JStr(<<"object">>)>>)

PropNames == <<"a", "p", "q", "r">>

PropNodes ==
    { Leaf, Ref("D"), Ref("X"), AllOf(<<Ref("D"), Ref("E")>>), ArrayOf(Ref("D")),
      Obj(<<"y">>, <<Leaf>>, <<"y">>) }

\* the properties that may follow the first one
SiblingNodes == { Leaf, Ref("D") }

\* the bodies of definition D; definition E is always an object that requires c
DefBodies ==
    { Obj(<<"b">>, <<Leaf>>, <<"b">>),
      Obj(<<"b", "c">>, <<Leaf, LeafDefault>>, <<"b", "c">>),
      Ref("E"),
      Obj(<<"x">>, <<Ref("E")>>, <<"x">>) }
DefTables ==
    {JNull} \cup {JDict(<<"D", "E">>, <<d, Obj(<<"c">>, <<Leaf>>, <<"c">>)>>) : d \in DefBodies}

\* a top-level schema document; defs = JNull stands for "no $defs key"
TopDoc(nodes, req, defs) ==
    JDict((IF defs = JNull THEN <<>> ELSE <<"$defs">>) \o <<"description", "properties">>
              \o (IF req = <<>> THEN <<>> ELSE <<"required">>) \o <<"title", "type">>,
          (IF defs = JNull THEN <<>> ELSE <<defs>>)
              \o <<JStr(<<"Doc">>), JDict(SubSeq(PropNames, 1, Len(nodes)), nodes)>>
              \o (IF req = <<>> THEN <<>> ELSE <<Names(req)>>)
              \o <<JStr(<<"Top">>), JStr(<<"object">>)>>)

TopDocs ==
    { TopDoc(nodes, req, defs) :
        nodes \in { <<first>> \o more :
                      first \in PropNodes,
                      more \in UNION {[1..n -> SiblingNodes] : n \in 0..(MaxProps - 1)} },
        req \in {<<>>, <<"a">>},
        defs \in DefTables }

File(dir, stem, doc) ==
    [path |-> << <<"in">>, <<dir>>, stem \o <<".", "json">> >>, content |-> doc]

GoodStem == <<"g", "_", "g", "_", "K">>
SimpleDoc == TopDoc(<<Leaf, Ref("D")>>, <<"a">>, JDict(<<"D">>, <<Obj(<<"b">>, <<Leaf>>, <<"b">>)>>))
Stems == UNION {[1..n -> {"g", "K", "_"}] : n \in 1..MaxNameLen}

\* directories of one well-named file with any schema, and directories of two files
\* with any names (in either listing order)
SchemaDirs == { <<File("v1", GoodStem, d)>> : d \in TopDocs }
NameDirs ==
    UNION { { <<File("v1", GoodStem, SimpleDoc), File("v2", st, SimpleDoc)>>,
              <<File("v2", st, SimpleDoc), File("v1", GoodStem, SimpleDoc)>> } : st \in Stems }

Init ==
    /\ indir \in SchemaDirs \cup NameDirs
    /\ outfiles = {}
    /\ pc = "start"
    /\ todo = <<>>
    /\ cur = <<>>
    /\ naming = NoNaming
    /\ loaded = <<>>
    /\ heap = <<>>
    /\ schema = None
    /\ definitions = None
    /\ stack = <<>>
    /\ calls = 0
    /\ run = 1
    /\ defs0 = JNull
    /\ tree1 = JNull
    /\ pre = JNull
    /\ out0 = {}
    /\ out1 = {}

Next ==
    \/ GenerateCrds
    \/ NextFile
    \/ BatchDone
    \/ GenerateCrdName
    \/ GetSchemaLoad
    \/ ExpandRefsEnter
    \/ ExpandRefsDict
    \/ ExpandRefsList
    \/ ExpandRefsReturn
    \/ ExpandAgain
    \/ PostProcess
    \/ WriteCrd
    \/ RunAgain

Spec == Init /\ [][Next]_vars

(***************************************************************************)
(* schema_post_processing on its own: any document, handed to it directly. *)
(***************************************************************************)
NormNodes ==
    { Leaf, LeafDefault,
      JDict(<<"default", "type">>, <<JStr(<<"v">>), JStr(<<"string">>)>>),
      JDict(<<"properties", "required", "title", "type">>,
            <<JDict(<<"y">>, <<Leaf>>), Names(<<>>), JStr(<<"O">>), JStr(<<"object">>)>>),
      Obj(<<"y">>, <<LeafDefault>>, <<"y">>),
      ArrayOf(LeafDefault),
      JDict(<<"items", "type">>, <<JList(<<Leaf, LeafDefault>>), JStr(<<"array">>)>>),
      JDict(<<"anyOf", "default", "title">>,
            <<JList(<<Obj(<<"y">>, <<Leaf>>, <<"y">>), JDict(<<"type">>, <<JStr(<<"null">>)>>)>>),
              JNull, JStr(<<"T">>)>>) }

\* req is a list of names, or JNull for "no required key"
NormDoc(nodes, req) ==
    JDict(<<"properties">> \o (IF req = JNull THEN <<>> ELSE <<"required">>)
              \o <<"title", "type">>,
          <<JDict(SubSeq(PropNames, 1, Len(nodes)), nodes)>>
              \o (IF req = JNull THEN <<>> ELSE <<req>>)
              \o <<JStr(<<"Top">>), JStr(<<"object">>)>>)

NormDocs ==
    { NormDoc(nodes, req) :
        nodes \in UNION {[1..n -> NormNodes] : n \in 1..MaxProps},
        req \in {JNull, Names(<<>>), Names(<<"a">>)} }

InitNorm ==
    \E doc \in NormDocs :
        /\ indir = <<File("v1", GoodStem, doc)>>
        /\ outfiles = {}
        /\ pc = "expanded"
        /\ todo = <<>>
        /\ cur = indir[1].path
        /\ naming = NoNaming
        /\ loaded = cur
        /\ heap = Load(doc).h
        /\ schema = Load(doc).v
        /\ definitions = None
        /\ stack = <<>>
        /\ calls = 0
        /\ run = 1
        /\ defs0 = JNull
        /\ tree1 = JNull
        /\ pre = JNull
        /\ out0 = {}
        /\ out1 = {}

SpecNorm == InitNorm /\ [][PostProcess]_vars

(***************************************************************************)
(* What the properties below speak of.                                     *)
(***************************************************************************)
Input == load_json_schema(cur)
InputDefs == IF Has(Input, "$defs") THEN At(Input, "$defs") ELSE JDict(<<>>, <<>>)
InputSchema == Pop(Input, "$defs")
SchemaTree == Deep(heap, schema)
\* expand_refs(schema, definitions) has returned to get_schema
AfterExpand == pc = "expanded" /\ calls = 1
\* generate_crd has returned from writing the manifest of cur
JustWritten == pc = "next" /\ cur # <<>> /\ loaded = cur
Emitted == EmittedSchema(YamlFilename(naming))

\* every dict node of a document
RECURSIVE Nodes(_)
Nodes(j) ==
    IF j.t \in {"d", "l"}
    THEN (IF j.t = "d" THEN {j} ELSE {}) \cup UNION {Nodes(j.vals[i]) : i \in 1..Len(j.vals)}
    ELSE {}

RefName(n) == Last(Split(At(n, "$ref").s, "/"))
Defined(n) == Has(InputDefs, KeyOf(RefName(n)))
AllRefsDefined == \A n \in Nodes(Input) : Has(n, "$ref") => Defined(n)
UnknownMarker == \E n \in Nodes(InputSchema) : Has(n, "$ref") /\ ~Defined(n)
ThreeParts(path) == Len(Split(Stem(Last(path)), "_")) = 3

(***************************************************************************)
(* C1: for a table in which every referenced name is defined, no dict node *)
(* of the schema tree holds a "$ref" key once expand_refs has returned.    *)
(* The code does not do this: a definition that is itself a reference      *)
(* leaves its own marker in the node it was inlined into.                  *)
(***************************************************************************)
C1_NoReferenceLeft ==
    AfterExpand /\ AllRefsDefined => \A n \in Nodes(SchemaTree) : ~Has(n, "$ref")

\* the properties of the input that are references to a definition requiring ["b"]
C2Props ==
    {k \in Range(At(Input, "properties").keys) :
        LET n == At(At(Input, "properties"), k)
        IN  /\ n.t = "d" /\ Has(n, "$ref") /\ Defined(n)
            /\ LET d == At(InputDefs, KeyOf(RefName(n)))
               IN  Has(d, "required") /\ At(d, "required") = Names(<<"b">>)}
C2Case ==
    /\ Has(Input, "required")
    /\ At(Input, "required") = Names(<<"a">>)
    /\ C2Props # {}

(***************************************************************************)
(* C2: when the top-level object requires ["a"] and one of its properties  *)
(* is a reference to a definition that requires ["b"], the object requires *)
(* exactly a and b after expansion, each once, in sorted order.  The code  *)
(* does not do this: every child of a properties mapping is handed a list  *)
(* of its own, so b never reaches the list of the enclosing object.        *)
(***************************************************************************)
C2_ParentRequiresBoth ==
    AfterExpand /\ C2Case =>
        Has(SchemaTree, "required") /\ At(SchemaTree, "required") = Names(<<"a", "b">>)

RECURSIVE UnknownDropped(_, _)
UnknownDropped(in, out) ==
    IF in.t = "d"
    THEN IF Has(in, "$ref")
         THEN ~Defined(in) /\ Len(in.keys) = 1 => out = JDict(<<>>, <<>>)
         ELSE /\ out.t = "d"
              /\ \A i \in 1..Len(in.keys) :
                    Has(out, in.keys[i]) => UnknownDropped(in.vals[i], At(out, in.keys[i]))
    ELSE IF in.t = "l"
         THEN /\ out.t = "l"
              /\ Len(out.vals) = Len(in.vals)
              /\ \A i \in 1..Len(in.vals) : UnknownDropped(in.vals[i], out.vals[i])
         ELSE TRUE

C4Case ==
    /\ Has(Input, "properties")
    /\ Has(Input, "required")
    /\ At(Input, "required").vals # <<>>
    /\ ~Has(Input, "$defs")

\* C4 as claimed: the manifest keeps the required list in openAPIV3Schema
C4_RequiredPreserved ==
    JustWritten /\ C4Case =>
        Has(Emitted, "required") /\ At(Emitted, "required") = At(Input, "required")

\* C4 as amended: openAPIV3Schema holds the schema's description, type: object and
\* the schema's properties, and nothing else: the top-level required list is not in
\* the manifest
C4_OnlyDescriptionTypeProperties ==
    JustWritten =>
        /\ Emitted.keys = <<"description", "properties", "type">>
        /\ At(Emitted, "description") = At(Input, "description")
        /\ At(Emitted, "type") = JStr(<<"object">>)
        /\ At(Emitted, "properties")
               = dump_data_without_aliases(At(SchemaTree, "properties"))
C4_Witness == JustWritten /\ C4Case

(***************************************************************************)
(* C5: what schema_post_processing leaves (checked under SpecNorm).        *)
(***************************************************************************)
Clean(before, after) ==
    /\ ~Has(after, "title")
    /\ ~(Has(after, "default") /\ At(after, "default") = JNull)
    /\ Has(after, "required")
           <=> (Has(before, "required") /\ At(before, "required").vals # <<>>)
    /\ Has(after, "required") => At(after, "required") = At(before, "required")

\* C5 as claimed: this holds of every dict node at any depth of the tree
C5_CleanAtAnyDepth ==
    pc = "emit" =>
        \A n \in Nodes(SchemaTree) :
            /\ ~Has(n, "title")
            /\ ~(Has(n, "default") /\ At(n, "default") = JNull)
            /\ Has(n, "required") => At(n, "required").vals # <<>>

\* the nodes the normaliser reaches: the values of properties, and items
RECURSIVE CleanBelow(_, _)
CleanBelow(before, after) ==
    IF before.t = "d"
    THEN /\ after.t = "d"
         /\ Clean(before, after)
         /\ Has(before, "properties") =>
               /\ Has(after, "properties")
               /\ At(after, "properties").keys = At(before, "properties").keys
               /\ \A i \in 1..Len(At(before, "properties").vals) :
                     CleanBelow(At(before, "properties").vals[i],
                                At(after, "properties").vals[i])
         /\ Has(before, "items") =>
               Has(after, "items") /\ CleanBelow(At(before, "items"), At(after, "items"))
    ELSE IF before.t = "l"
         THEN /\ after.t = "l"
              /\ Len(after.vals) = Len(before.vals)
              /\ \A i \in 1..Len(before.vals) : CleanBelow(before.vals[i], after.vals[i])
         ELSE after = before

\* C5 as amended: after schema_post_processing, every node reached from the root
\* through properties values and items has no title, no null default, and has lost
\* its required list exactly when that list was empty (a non-empty one is unchanged);
\* nodes under other keys (anyOf, allOf, ...) are not visited
C5_CleanThroughPropertiesAndItems == pc = "emit" => CleanBelow(pre, SchemaTree)
C5_Witness ==
    /\ pc = "emit"
    /\ \E n \in Nodes(pre) : Has(n, "required") /\ At(n, "required").vals = <<>>
    /\ \E n \in Nodes(pre) : Has(n, "required") /\ At(n, "required").vals # <<>>
    /\ \E n \in Nodes(pre) : Has(n, "default") /\ At(n, "default") = JNull
    /\ \E n \in Nodes(pre) : Has(n, "anyOf")

(***************************************************************************)
(* C6: two runs of generate_crds over the same input directory leave       *)
(* byte-identical YAML files.  The code does not do this: list(set(..))    *)
(* orders a required list by the strings' hashes, which differ from one    *)
(* process to the next.                                                    *)
(***************************************************************************)
C6_RunsAgree == pc = "done" /\ run = 2 => outfiles = out1

(***************************************************************************)
(* C7: expand_refs leaves the definitions table, and every node below it,  *)
(* as it was.  The code does not do this: the copy it inlines is shallow,  *)
(* so the nodes below a definition are the ones expanded in place.         *)
(***************************************************************************)
C7_DefinitionsUnchanged == AfterExpand => Deep(heap, definitions) = defs0

(***************************************************************************)
(* C8: expanding the tree a first expansion left changes nothing.  The     *)
(* code does not do this: the marker a chained definition left behind is   *)
(* expanded by the second call.                                            *)
(***************************************************************************)
C8_SecondExpansionChangesNothing == pc = "expanded_twice" => SchemaTree = tree1

(***************************************************************************)
(* C9: generate_crd goes on to load the schema only for a file whose stem  *)
(* splits into exactly three parts on "_", which are group, resource       *)
(* plural and kind in that order; for any other file it fails, with the    *)
(* schema not loaded and the output directory as it was.                   *)
(***************************************************************************)
C9_ThreePartsOrFailure ==
    /\ pc \in {"load", "expand", "expanded", "expanded_twice", "emit"} =>
          /\ ThreeParts(cur)
          /\ <<naming.group, naming.resource, naming.kind>> = Split(Stem(Last(cur)), "_")
    /\ JustWritten => ThreeParts(cur)
    /\ pc = "error" => ~ThreeParts(cur) /\ loaded # cur /\ outfiles = out0
    /\ pc = "crd" => loaded # cur /\ outfiles = out0
C9_Witness == pc = "error" /\ outfiles # {} /\ Len(Split(Stem(Last(cur)), "_")) = 4

(***************************************************************************)
(* C10: when every required name of the input and of the definitions is a  *)
(* key of its own node's properties, the same holds of every node after    *)
(* expand_refs.  The code does not do this: the elements of a list share   *)
(* one accumulator, and each of them is handed that same list.             *)
(***************************************************************************)
RequiredIsLocal(n) ==
    Has(n, "required") /\ Has(n, "properties") =>
        \A i \in 1..Len(At(n, "required").vals) :
            KeyOf(At(n, "required").vals[i].s) \in Range(At(n, "properties").keys)
C10_RequiredStaysLocal ==
    AfterExpand /\ (\A n \in Nodes(Input) : RequiredIsLocal(n)) =>
        \A n \in Nodes(SchemaTree) : RequiredIsLocal(n)

====
